---- MODULE Spec2Model ----
(***************************************************************************)
(* Model of the dynamic uniform-buffer arena (client/render/wgpu/uniform.rs) *)
(* and of the deferred renderer (client/render/world/deferred.rs).           *)
(*                                                                           *)
(* Spec          one arena DynamicUniformBuffer<T> and the block handles its *)
(*               client holds; T is drawn from ElemTypes.                    *)
(* SpecDeferred  one DeferredPipeline / DeferredRenderer pair.               *)
(***************************************************************************)
EXTENDS Integers, Sequences, FiniteSets, TLC

VARIABLES
    T,              \* the element type of the arena: [fields, align]
    pc,             \* "start" before new(), "ready", or "panicked" (aborted)
    allocated,      \* DynamicUniformBuffer.allocated
    update_buf,     \* DynamicUniformBuffer.update_buf (host staging bytes)
    inner,          \* bytes of DynamicUniformBuffer.inner (the GPU buffer)
    rc,             \* DynamicUniformBuffer._rc: the current liveness token
    heap,           \* live Rc<()> allocations: token -> strong count
    blocks,         \* the DynamicUniformBufferBlock handles the client holds, each
                    \* with the value last staged through it (val) and whether a
                    \* successful clear has happened since it was issued (stale)
    last,           \* history: the last call and what it returned (see Hist)
    nalloc,         \* history: successful allocates since the last successful clear
    pipeline,       \* DeferredPipeline.pipeline
    bind_group_layouts, \* DeferredPipeline.bind_group_layouts
    uniform_buffer, \* DeferredPipeline.uniform_buffer: the buffer object (id) and its bytes
    bind_group,     \* DeferredRenderer.bind_group
    calls,          \* the device/queue/pass calls made so far, in order
    other           \* a second DynamicUniformBuffer<T>: allocated, update_buf, _rc
                    \* and the handles it has issued

arenaVars == <<T, pc, allocated, update_buf, inner, rc, heap, blocks, last, nalloc>>
\* the arena's variables but the history record
arenaVars_ == <<T, pc, allocated, update_buf, inner, rc, heap, blocks, nalloc>>
deferredVars == <<pipeline, bind_group_layouts, uniform_buffer, bind_group, calls>>
\* what is not part of the arena
outsideVars == <<deferredVars, other>>
vars == <<arenaVars, deferredVars, other>>

----------------------------------------------------------------------------
(* Program constants and bounds *)

DYNAMIC_UNIFORM_BUFFER_SIZE == 16384
DYNAMIC_UNIFORM_BUFFER_ALIGNMENT == 256

\* allocate is called at most MaxBlocks times between two successful clears
MaxBlocks == 3

\* the values of T a client passes to allocate / write_block
Vals == {1, 2}

\* Element types, by the bytes of their fields and their alignment
\* (#[repr(align(..))]); Rust rounds size_of up to a multiple of align_of.
ElemTypes ==
    { [fields |-> 16,    align |-> 16],     \* 16-byte type, natural alignment
      [fields |-> 300,   align |-> 4],
      [fields |-> 16,    align |-> 256],    \* 16 bytes of fields, align(256)
      [fields |-> 0,     align |-> 256],    \* zero-sized, align(256)
      [fields |-> 6000,  align |-> 256],    \* two blocks fit, with a rest
      [fields |-> 8192,  align |-> 512],    \* two blocks fill the buffer
      [fields |-> 20000, align |-> 256] }   \* larger than the buffer

Max(a, b) == IF a >= b THEN a ELSE b
Min(a, b) == IF a <= b THEN a ELSE b

align_of == T.align
size_of == ((T.fields + T.align - 1) \div T.align) * T.align

\* byte k of the in-memory object of value v
ObjByte(v, k) == (v + k) % 256

----------------------------------------------------------------------------
(* Byte buffers.  A buffer of zero-filled bytes is held as the set of the  *)
(* slices copied into it: [start, len, val, skip] says that bytes          *)
(* start .. start+len-1 are bytes skip .. skip+len-1 of the object val.    *)

BufByte(buf, i) ==
    IF \E s \in buf : s.start <= i /\ i < s.start + s.len
    THEN LET s == CHOOSE s \in buf : s.start <= i /\ i < s.start + s.len
         IN ObjByte(s.val, s.skip + (i - s.start))
    ELSE 0

\* the part of the slices of buf that lies in [lo, hi)
Clip(buf, lo, hi) ==
    { [start |-> Max(s.start, lo),
       len   |-> Min(s.start + s.len, hi) - Max(s.start, lo),
       val   |-> s.val,
       skip  |-> s.skip + (Max(s.start, lo) - s.start)]
      : s \in { s \in buf : s.start < hi /\ s.start + s.len > lo } }

Shift(buf, by) ==
    { [start |-> s.start + by, len |-> s.len, val |-> s.val, skip |-> s.skip] : s \in buf }

\* dst with its bytes [at, at+len) replaced by the len bytes of src
CopyInto(dst, at, src, len) ==
    Clip(dst, 0, at) \cup Clip(dst, at + len, DYNAMIC_UNIFORM_BUFFER_SIZE)
        \cup Shift(Clip(src, 0, len), at)

\* the byte view of a value: size_of::<T>() bytes of the object
any_as_bytes(val) ==
    [len |-> size_of,
     bytes |-> IF size_of = 0 THEN {} ELSE {[start |-> 0, len |-> size_of, val |-> val, skip |-> 0]}]

----------------------------------------------------------------------------
(* Rc<()> *)

RcNew(h) == CHOOSE n \in 0..Cardinality(DOMAIN h) : n \notin DOMAIN h
RcClone(h, t) == [h EXCEPT ![t] = @ + 1]
RcDrop(h, t) ==
    IF h[t] = 1 THEN [x \in DOMAIN h \ {t} |-> h[x]] ELSE [h EXCEPT ![t] = @ - 1]

----------------------------------------------------------------------------
(* DynamicUniformBuffer<T> *)

\* faulty variant: new() without its alignment assertion
alignment_unchecked == TRUE

\* the assertion of new()
alignment_ok == align_of % DYNAMIC_UNIFORM_BUFFER_ALIGNMENT = 0

block_size == Max(DYNAMIC_UNIFORM_BUFFER_ALIGNMENT, size_of)

\* DynamicUniformBufferBlock::offset: addr as u32, i.e. addr mod 2^32,
\* computed as 256 * ((addr div 256) mod 2^24) + addr mod 256
offset(block) == (((block.addr \div 256) % 16777216) * 256) + (block.addr % 256)

\* faulty variant: write_block that ignores the address of the block
write_block_at_zero(buf, block, val) ==
    LET start == 0
        end == start + block_size
        src == any_as_bytes(val)
    IN  IF end > DYNAMIC_UNIFORM_BUFFER_SIZE \/ end - start # src.len
        THEN [panic |-> TRUE, buf |-> buf]
        ELSE [panic |-> FALSE, buf |-> CopyInto(buf, start, src.bytes, src.len)]

\* faulty variant: write_block that leaves the last byte of the block as it was
write_block_short(buf, block, val) ==
    LET start == block.addr
        end == start + block_size
        src == any_as_bytes(val)
    IN  IF end > DYNAMIC_UNIFORM_BUFFER_SIZE \/ end - start # src.len
        THEN [panic |-> TRUE, buf |-> buf]
        ELSE [panic |-> FALSE, buf |-> CopyInto(buf, start, src.bytes, src.len - 1)]

\* faulty variant: write_block that copies the bytes it has instead of panicking
\* when the value is shorter than the block
write_block_lenient(buf, block, val) ==
    LET start == block.addr
        end == start + block_size
        src == any_as_bytes(val)
    IN  IF end > DYNAMIC_UNIFORM_BUFFER_SIZE
        THEN [panic |-> TRUE, buf |-> buf]
        ELSE [panic |-> FALSE, buf |-> CopyInto(buf, start, src.bytes, src.len)]

\* write_block on staging bytes buf: the slice [start..end] of the buffer,
\* then copy_from_slice, which panics unless the lengths agree
write_block(buf, block, val) ==
    LET start == block.addr
        end == start + block_size
        src == any_as_bytes(val)
    IN  IF end > DYNAMIC_UNIFORM_BUFFER_SIZE \/ end - start # src.len
        THEN [panic |-> TRUE, buf |-> buf]
        ELSE [panic |-> FALSE, buf |-> CopyInto(buf, start, src.bytes, src.len)]

\* faulty variant: allocate whose capacity check forgets the size of the new block
allocate_late_check(a, buf, h, t, val) ==
    LET size == block_size
        addr == a
        block == [_rc |-> t, addr |-> addr]
        w == write_block(buf, block, val)
    IN  IF a > DYNAMIC_UNIFORM_BUFFER_SIZE
        THEN [panic |-> TRUE, allocated |-> a, buf |-> buf, heap |-> h, block |-> block]
        ELSE IF w.panic
        THEN [panic |-> TRUE, allocated |-> a + size, buf |-> buf, heap |-> h, block |-> block]
        ELSE [panic |-> FALSE, allocated |-> a + size, buf |-> w.buf,
              heap |-> RcClone(h, t), block |-> block]

\* allocate(val) on cursor a, staging bytes buf, Rc heap h and token t.
\* A panic of write_block unwinds after the cursor was advanced, and drops
\* the block (and its clone of the token) again.
allocate(a, buf, h, t, val) ==
    LET size == block_size
        addr == a
        block == [_rc |-> t, addr |-> addr]
        w == write_block(buf, block, val)
    IN  IF a + size > DYNAMIC_UNIFORM_BUFFER_SIZE
        THEN [panic |-> TRUE, allocated |-> a, buf |-> buf, heap |-> h, block |-> block]
        ELSE IF w.panic
        THEN [panic |-> TRUE, allocated |-> a + size, buf |-> buf, heap |-> h, block |-> block]
        ELSE [panic |-> FALSE, allocated |-> a + size, buf |-> w.buf,
              heap |-> RcClone(h, t), block |-> block]

\* faulty variant: a clear that never finds another owner
try_unwrap_always(h, t) == TRUE

\* Rc::try_unwrap(t) is Ok iff t has no other owner
try_unwrap(h, t) == h[t] = 1

\* faulty variant: clear that does not reset the cursor
clear_keeps_cursor(a, h, t) ==
    LET fresh == RcNew(h)
        out == t
        h1 == h @@ (fresh :> 1)
    IN  IF try_unwrap(h1, out)
        THEN [res |-> "Ok", allocated |-> a, heap |-> RcDrop(h1, out), rc |-> fresh]
        ELSE [res |-> "Err", allocated |-> a, heap |-> RcDrop(h1, fresh), rc |-> out]

\* faulty variant: clear that keeps the fresh token when it fails
clear_keeps_fresh(a, h, t) ==
    LET fresh == RcNew(h)
        out == t
        h1 == h @@ (fresh :> 1)
    IN  IF try_unwrap(h1, out)
        THEN [res |-> "Ok", allocated |-> 0, heap |-> RcDrop(h1, out), rc |-> fresh]
        ELSE [res |-> "Err", allocated |-> a, heap |-> RcDrop(h1, out), rc |-> fresh]

\* clear() on cursor a, Rc heap h and token t
clear(a, h, t) ==
    LET fresh == RcNew(h)
        out == t
        h1 == h @@ (fresh :> 1)
    IN  IF try_unwrap(h1, out)
        THEN [res |-> "Ok", allocated |-> 0, heap |-> RcDrop(h1, out), rc |-> fresh]
        ELSE [res |-> "Err", allocated |-> a, heap |-> RcDrop(h1, fresh), rc |-> out]

\* faulty variant: flush that transfers the allocated part of the staging bytes only
flush_allocated(gpu, buf) == CopyInto(gpu, 0, buf, allocated)

\* flush: queue.write_buffer(&inner, 0, &update_buf)
flush(gpu, buf) == CopyInto(gpu, 0, buf, DYNAMIC_UNIFORM_BUFFER_SIZE)

\* history record of a call: what was called, how it ended, the offset it
\* returned or acted on, the value it staged and the value that it replaced;
\* retry: the call is an allocate, clear or drop that follows a clear that
\* returned Err, with nothing but handle drops in between
NoHist == [op |-> "none", res |-> "ok", off |-> 0, val |-> 0, prev |-> 0, retry |-> FALSE]
Hist(op, res, off, val, prev) ==
    [op |-> op, res |-> res, off |-> off, val |-> val, prev |-> prev,
     retry |-> /\ op \in {"allocate", "clear", "drop"}
               /\ \/ last.op = "clear" /\ last.res = "Err"
                  \/ last.op = "drop" /\ last.retry]

Init ==
    /\ T \in ElemTypes
    /\ pc = "start"
    /\ allocated = 0
    /\ update_buf = {}
    /\ inner = {}
    /\ rc = 0
    /\ heap = << >>
    /\ blocks = << >>
    /\ last = NoHist
    /\ nalloc = 0
    /\ pipeline = 0
    /\ bind_group_layouts = 0
    /\ uniform_buffer = 0
    /\ bind_group = 0
    /\ calls = << >>
    /\ other = 0

New ==
    /\ pc = "start"
    /\ IF alignment_ok
       THEN /\ pc' = "ready"
            /\ heap' = (RcNew(heap) :> 1)
            /\ rc' = RcNew(heap)
            /\ last' = Hist("new", "ok", 0, 0, 0)
       ELSE /\ pc' = "panicked"
            /\ last' = Hist("new", "panic", 0, 0, 0)
            /\ UNCHANGED <<heap, rc>>
    /\ allocated' = 0
    /\ update_buf' = {}
    /\ inner' = {}
    /\ UNCHANGED <<T, blocks, nalloc, outsideVars>>

Allocate(val) ==
    /\ pc = "ready"
    /\ nalloc < MaxBlocks
    /\ LET r == allocate(allocated, update_buf, heap, rc, val)
       IN  /\ allocated' = r.allocated
           /\ update_buf' = r.buf
           /\ heap' = r.heap
           /\ IF r.panic
              THEN /\ pc' = "panicked"
                   /\ last' = Hist("allocate", "panic", 0, 0, 0)
                   /\ UNCHANGED <<blocks, nalloc>>
              ELSE /\ pc' = "ready"
                   /\ blocks' = Append(blocks, [_rc |-> r.block._rc, addr |-> r.block.addr,
                                                val |-> val, stale |-> FALSE])
                   /\ nalloc' = nalloc + 1
                   /\ last' = Hist("allocate", "ok", offset(r.block), val, 0)
    /\ UNCHANGED <<T, inner, rc, outsideVars>>

\* faulty variant: a write_block that also writes the GPU buffer
WriteBlock_through(i, val) ==
    /\ pc = "ready"
    /\ i \in 1..Len(blocks)
    /\ LET w == write_block(update_buf, blocks[i], val)
       IN  /\ update_buf' = w.buf
           /\ inner' = w.buf
           /\ IF w.panic
              THEN /\ pc' = "panicked"
                   /\ last' = Hist("write_block", "panic", 0, 0, 0)
                   /\ UNCHANGED blocks
              ELSE /\ pc' = "ready"
                   /\ blocks' = [blocks EXCEPT ![i].val = val]
                   /\ last' = Hist("write_block", "ok", offset(blocks[i]), val, blocks[i].val)
    /\ UNCHANGED <<T, allocated, rc, heap, nalloc, outsideVars>>

\* write_block through the i-th handle the client holds
WriteBlock(i, val) ==
    /\ pc = "ready"
    /\ i \in 1..Len(blocks)
    /\ LET w == write_block(update_buf, blocks[i], val)
       IN  /\ update_buf' = w.buf
           /\ IF w.panic
              THEN /\ pc' = "panicked"
                   /\ last' = Hist("write_block", "panic", 0, 0, 0)
                   /\ UNCHANGED blocks
              ELSE /\ pc' = "ready"
                   /\ blocks' = [blocks EXCEPT ![i].val = val]
                   /\ last' = Hist("write_block", "ok", offset(blocks[i]), val, blocks[i].val)
    /\ UNCHANGED <<T, allocated, inner, rc, heap, nalloc, outsideVars>>

Clear ==
    /\ pc = "ready"
    /\ LET r == clear(allocated, heap, rc)
       IN  /\ allocated' = r.allocated
           /\ heap' = r.heap
           /\ rc' = r.rc
           /\ last' = Hist("clear", r.res, 0, 0, 0)
           /\ IF r.res = "Ok"
              THEN /\ nalloc' = 0
                   /\ blocks' = [j \in 1..Len(blocks) |-> [blocks[j] EXCEPT !.stale = TRUE]]
              ELSE UNCHANGED <<nalloc, blocks>>
    /\ UNCHANGED <<T, pc, update_buf, inner, outsideVars>>

Flush ==
    /\ pc = "ready"
    /\ inner' = flush(inner, update_buf)
    /\ last' = IF last.op = "write_block" /\ last.res = "ok"
               THEN Hist("flush", "ok", last.off, last.val, last.prev)
               ELSE Hist("flush", "ok", 0, 0, 0)
    /\ UNCHANGED <<T, pc, allocated, update_buf, rc, heap, blocks, nalloc, outsideVars>>

\* the client drops the i-th handle it holds
DropBlock(i) ==
    /\ pc = "ready"
    /\ i \in 1..Len(blocks)
    /\ heap' = RcDrop(heap, blocks[i]._rc)
    /\ blocks' = [j \in 1..(Len(blocks) - 1) |-> IF j < i THEN blocks[j] ELSE blocks[j + 1]]
    /\ last' = Hist("drop", "ok", 0, 0, 0)
    /\ UNCHANGED <<T, pc, allocated, update_buf, inner, rc, nalloc, outsideVars>>

Next ==
    \/ New
    \/ \E val \in Vals : Allocate(val)
    \/ \E i \in 1..MaxBlocks, val \in Vals : WriteBlock(i, val)
    \/ Clear
    \/ Flush
    \/ \E i \in 1..MaxBlocks : DropBlock(i)

Spec == Init /\ [][Next]_vars

----------------------------------------------------------------------------
(* DeferredPipeline and DeferredRenderer *)

\* record_draw / update_uniform_buffers are called at most MaxDraws times
MaxDraws == 2

SampleCounts == {1, 4}

\* client::entity::MAX_LIGHTS, the length of the lights array.  The constant
\* is defined outside the files at hand; the layout below is parametric in it
\* and is checked for small lengths.
MAX_LIGHTS == 2

\* the bit pattern of an f32
f32(x) ==
    CASE x = "0.0" -> 0
      [] x = "0.5" -> 1056964608
      [] x = "1.0" -> 1065353216
      [] x = "2.0" -> 1073741824

\* the bytes of padding that a view of an object as bytes reads: padding is
\* not initialised, any byte can show up
PadBytes == {0, 170}

\* the four bytes of a 32-bit word in memory
le_bytes(w) == <<w % 256, (w \div 256) % 256, (w \div 65536) % 256, (w \div 16777216) % 256>>

RECURSIVE words_as_bytes(_)
words_as_bytes(ws) ==
    IF ws = << >> THEN << >> ELSE le_bytes(Head(ws)) \o words_as_bytes(Tail(ws))

\* PointLight: origin (three f32), radius
PointLight_words(l) == <<l.origin[1], l.origin[2], l.origin[3], l.radius>>

RECURSIVE lights_words(_)
lights_words(ls) ==
    IF ls = << >> THEN << >> ELSE PointLight_words(Head(ls)) \o lights_words(Tail(ls))

\* size_of::<DeferredUniforms>(): the fields, rounded up to the alignment 256
DeferredUniforms_size == ((80 + 16 * MAX_LIGHTS + 255) \div 256) * 256

\* faulty variant: a layout that has light_count and _pad after the lights
DeferredUniforms_bytes_count_last(u) ==
    LET fields == words_as_bytes(u.inv_projection[1] \o u.inv_projection[2]
                                   \o u.inv_projection[3] \o u.inv_projection[4]
                                   \o lights_words(u.lights)
                                   \o <<u.light_count>> \o u._pad)
    IN  fields \o [i \in 1..(DeferredUniforms_size - Len(fields)) |-> u.tail]

\* the in-memory bytes of a DeferredUniforms, #[repr(C, align(256))]:
\* inv_projection, light_count, _pad, lights, then padding up to the size
DeferredUniforms_bytes(u) ==
    LET fields == words_as_bytes(u.inv_projection[1] \o u.inv_projection[2]
                                   \o u.inv_projection[3] \o u.inv_projection[4]
                                   \o <<u.light_count>> \o u._pad
                                   \o lights_words(u.lights))
    IN  fields \o [i \in 1..(DeferredUniforms_size - Len(fields)) |-> u.tail]

Identity ==
    << <<f32("1.0"), f32("0.0"), f32("0.0"), f32("0.0")>>,
       <<f32("0.0"), f32("1.0"), f32("0.0"), f32("0.0")>>,
       <<f32("0.0"), f32("0.0"), f32("1.0"), f32("0.0")>>,
       <<f32("0.0"), f32("0.0"), f32("0.0"), f32("1.0")>> >>

Camera ==
    << <<f32("2.0"), f32("0.0"), f32("0.0"), f32("0.5")>>,
       <<f32("0.0"), f32("2.0"), f32("0.0"), f32("0.5")>>,
       <<f32("0.0"), f32("0.0"), f32("0.5"), f32("1.0")>>,
       <<f32("0.0"), f32("0.0"), f32("2.0"), f32("1.0")>> >>

\* the lights array with its first n entries in use, the others zeroed
Lights(n) ==
    [k \in 1..MAX_LIGHTS |->
        IF k <= n
        THEN [origin |-> <<f32("1.0"), f32("2.0"), f32("0.5")>>, radius |-> f32("2.0")]
        ELSE [origin |-> <<f32("0.0"), f32("0.0"), f32("0.0")>>, radius |-> f32("0.0")]]

\* a DeferredUniforms in memory: its fields and the bytes of its padding
DeferredUniforms(inv_projection, light_count, tail) ==
    [inv_projection |-> inv_projection, light_count |-> light_count,
     _pad |-> <<0, 0, 0>>, lights |-> Lights(light_count), tail |-> tail]

\* the uniforms that DeferredPipeline::new gives the buffer
InitialUniforms(tail) == DeferredUniforms(Identity, 0, tail)

\* the uniforms the owner of the pass hands in: at most MAX_LIGHTS lights
UniformValues ==
    { DeferredUniforms(m[1], m[2], tail) :
        m \in {<<Identity, 0>>, <<Camera, 1>>, <<Camera, MAX_LIGHTS>>}, tail \in PadBytes }

\* one call on the queue or on the render pass
Call(fn, target, index, arg) == [fn |-> fn, target |-> target, index |-> index, arg |-> arg]

\* faulty variant: update_uniform_buffers that transfers the header and the lights in use
update_uniform_buffers_in_use(uniforms) ==
    <<Call("write_buffer", uniform_buffer.id, 0,
           SubSeq(DeferredUniforms_bytes(uniforms), 1, 80 + 16 * uniforms.light_count))>>

\* queue.write_buffer(uniform_buffer, 0, any_as_bytes(&uniforms))
update_uniform_buffers(uniforms) ==
    <<Call("write_buffer", uniform_buffer.id, 0, DeferredUniforms_bytes(uniforms))>>

\* faulty variant: record_draw that updates the uniforms after the draw
record_draw_late(uniforms) ==
    <<Call("set_pipeline", "pass", 0, pipeline),
      Call("set_vertex_buffer", "pass", 0, "quad_vertex_buffer"),
      Call("set_bind_group", "pass", 0, [bind_group |-> bind_group, offsets |-> << >>]),
      Call("draw", "pass", 0, [vertices |-> <<0, 6>>, instances |-> <<0, 1>>])>>
        \o update_uniform_buffers(uniforms)

record_draw(uniforms) ==
    update_uniform_buffers(uniforms)
        \o <<Call("set_pipeline", "pass", 0, pipeline),
             Call("set_vertex_buffer", "pass", 0, "quad_vertex_buffer"),
             Call("set_bind_group", "pass", 0, [bind_group |-> bind_group, offsets |-> << >>]),
             Call("draw", "pass", 0, [vertices |-> <<0, 6>>, instances |-> <<0, 1>>])>>

\* queue.write_buffer: the bytes of content from offset on replaced by data
write_buffer(content, at, data) ==
    [i \in 1..Len(content) |->
        IF at < i /\ i <= at + Len(data) THEN data[i - at] ELSE content[i]]

\* the content of the uniform buffer after the queue has taken the calls cs
IsWrite(c) == c.fn = "write_buffer"
RECURSIVE Written(_, _)
Written(content, cs) ==
    IF cs = << >> THEN content
    ELSE Written(IF IsWrite(Head(cs))
                 THEN write_buffer(content, Head(cs).index, Head(cs).arg)
                 ELSE content,
                 Tail(cs))

\* faulty variant: a rebuild that builds the layouts and the buffer anew, as new does
rebuild_as_new(sample_count) ==
    [pipeline |-> [id |-> pipeline.id + 1, sample_count |-> sample_count,
                   layouts |-> <<pipeline.id + 1>>],
     bind_group_layouts |-> <<pipeline.id + 1>>,
     uniform_buffer |-> [id |-> uniform_buffer.id,
                         bytes |-> DeferredUniforms_bytes(InitialUniforms(0))]]

\* rebuild: recreate the pipeline from the layouts at hand and store it
rebuild(sample_count) ==
    [pipeline |-> [id |-> pipeline.id + 1, sample_count |-> sample_count,
                   layouts |-> bind_group_layouts],
     bind_group_layouts |-> bind_group_layouts,
     uniform_buffer |-> uniform_buffer]

\* DeferredPipeline::new, then DeferredRenderer::new
InitDeferred ==
    /\ T = [fields |-> 16, align |-> 256]
    /\ pc = "start"
    /\ allocated = 0
    /\ update_buf = {}
    /\ inner = {}
    /\ rc = 0
    /\ heap = << >>
    /\ blocks = << >>
    /\ last = NoHist
    /\ nalloc = 0
    /\ bind_group_layouts = <<0>>
    /\ \E sample_count \in SampleCounts :
          pipeline = [id |-> 0, sample_count |-> sample_count, layouts |-> bind_group_layouts]
    /\ \E tail \in PadBytes :
          uniform_buffer = [id |-> "uniform_buffer",
                            bytes |-> DeferredUniforms_bytes(InitialUniforms(tail))]
    /\ bind_group = [layout |-> bind_group_layouts[1], uniform |-> uniform_buffer.id]
    /\ calls = << >>
    /\ other = 0

Rebuild(sample_count) ==
    /\ pipeline.id < MaxDraws
    /\ pipeline' = rebuild(sample_count).pipeline
    /\ bind_group_layouts' = rebuild(sample_count).bind_group_layouts
    /\ uniform_buffer' = rebuild(sample_count).uniform_buffer
    /\ last' = Hist("rebuild", "ok", Len(calls), 0, 0)
    /\ UNCHANGED <<bind_group, calls, arenaVars_, other>>

UpdateUniformBuffers(uniforms) ==
    /\ Len(SelectSeq(calls, IsWrite)) < MaxDraws
    /\ calls' = calls \o update_uniform_buffers(uniforms)
    /\ uniform_buffer' =
          [uniform_buffer EXCEPT !.bytes = Written(@, update_uniform_buffers(uniforms))]
    /\ last' = Hist("update_uniform_buffers", "ok", Len(calls), uniforms, uniform_buffer.bytes)
    /\ UNCHANGED <<pipeline, bind_group_layouts, bind_group, arenaVars_, other>>

RecordDraw(uniforms) ==
    /\ Len(SelectSeq(calls, IsWrite)) < MaxDraws
    /\ calls' = calls \o record_draw(uniforms)
    /\ uniform_buffer' = [uniform_buffer EXCEPT !.bytes = Written(@, record_draw(uniforms))]
    /\ last' = Hist("record_draw", "ok", Len(calls), uniforms, uniform_buffer.bytes)
    /\ UNCHANGED <<pipeline, bind_group_layouts, bind_group, arenaVars_, other>>

NextDeferred ==
    \/ \E sample_count \in SampleCounts : Rebuild(sample_count)
    \/ \E uniforms \in UniformValues : UpdateUniformBuffers(uniforms)
    \/ \E uniforms \in UniformValues : RecordDraw(uniforms)

SpecDeferred == InitDeferred /\ [][NextDeferred]_vars

----------------------------------------------------------------------------
(* Two arenas of one element type.  The second arena is the record other;  *)
(* both take their liveness tokens from the one heap.                      *)

MaxOther == 2

\* the state after DynamicUniformBuffer::<T>::new for both arenas
InitTwo ==
    /\ T = [fields |-> 16, align |-> 256]
    /\ pc = "ready"
    /\ allocated = 0
    /\ update_buf = {}
    /\ inner = {}
    /\ rc = 0
    /\ heap = (0 :> 1) @@ (1 :> 1)
    /\ blocks = << >>
    /\ last = NoHist
    /\ nalloc = 0
    /\ pipeline = 0
    /\ bind_group_layouts = 0
    /\ uniform_buffer = 0
    /\ bind_group = 0
    /\ calls = << >>
    /\ other = [allocated |-> 0, update_buf |-> {}, rc |-> 1, blocks |-> << >>]

\* allocate on the second arena
OtherAllocate(val) ==
    /\ pc = "ready"
    /\ Len(other.blocks) < MaxOther
    /\ LET r == allocate(other.allocated, other.update_buf, heap, other.rc, val)
       IN  /\ heap' = r.heap
           /\ IF r.panic
              THEN /\ pc' = "panicked"
                   /\ other' = [other EXCEPT !.allocated = r.allocated]
                   /\ last' = Hist("other_allocate", "panic", 0, 0, 0)
              ELSE /\ pc' = "ready"
                   /\ other' = [other EXCEPT !.allocated = r.allocated,
                                             !.update_buf = r.buf,
                                             !.blocks = Append(@, r.block)]
                   /\ last' = Hist("other_allocate", "ok", offset(r.block), val, 0)
    /\ UNCHANGED <<T, allocated, update_buf, inner, rc, blocks, nalloc, deferredVars>>

\* write_block on the first arena with the j-th handle of the second arena
WriteForeign(j, val) ==
    /\ pc = "ready"
    /\ j \in 1..Len(other.blocks)
    /\ LET w == write_block(update_buf, other.blocks[j], val)
       IN  /\ update_buf' = w.buf
           /\ IF w.panic
              THEN /\ pc' = "panicked"
                   /\ last' = Hist("write_foreign", "panic", 0, 0, 0)
              ELSE /\ pc' = "ready"
                   /\ last' = Hist("write_foreign", "ok", offset(other.blocks[j]), val, 0)
    /\ UNCHANGED <<T, allocated, inner, rc, heap, blocks, nalloc, outsideVars>>

NextTwo ==
    \/ \E val \in Vals : Allocate(val)
    \/ \E i \in 1..MaxBlocks, val \in Vals : WriteBlock(i, val)
    \/ \E val \in Vals : OtherAllocate(val)
    \/ \E j \in 1..MaxOther, val \in Vals : WriteForeign(j, val)

SpecTwo == InitTwo /\ [][NextTwo]_vars

----------------------------------------------------------------------------
(* Properties *)

Constructed == pc = "ready" \/ (pc = "panicked" /\ last.op # "new")
Held == {i \in 1..Len(blocks) : ~blocks[i].stale}

\* the bytes [at, at+len) of buf are the first len bytes of the value v
HoldsValue(buf, at, len, v) ==
    \A k \in 0..(len - 1) : BufByte(buf, at + k) = ObjByte(v, k)

\* C1: every successful allocate returns the offset block_size() times the
\* number of successful allocates made before it since the last successful
\* clear (or since construction); the first one after a clear returns 0.
C1_AllocateOffset ==
    (last.op = "allocate" /\ last.res = "ok") => last.off = block_size * (nalloc - 1)

\* a second allocate after a successful clear that followed earlier allocates
C1_Witness ==
    /\ last.op = "allocate" /\ last.res = "ok"
    /\ nalloc = 2 /\ last.off = block_size
    /\ \E s \in update_buf : s.start = 2 * block_size

\* C2: clear() returns Ok if and only if no handle allocated since the last
\* successful clear is still held, also after earlier failed attempts.
C2_ClearOkIffNoneHeld ==
    [][last'.op = "clear" => (last'.res = "Ok" <=> Held = {})]_vars

\* a clear that succeeds after one that failed, the handles dropped in between
C2_Witness ==
    last.op = "clear" /\ last.res = "Ok" /\ last.retry /\ update_buf # {}

\* C3: a clear() that fails returns Err without aborting and leaves the arena
\* as it was: cursor, token (shared by every outstanding handle), handles and
\* staging bytes; an allocate that follows continues at the same offset.
C3_FailedClearChangesNothing ==
    [][ /\ (last'.op = "clear" /\ last'.res = "Err") =>
              /\ pc' = "ready"
              /\ allocated' = allocated /\ rc' = rc /\ heap' = heap
              /\ blocks' = blocks /\ update_buf' = update_buf /\ nalloc' = nalloc
              /\ \A i \in Held : blocks'[i]._rc = rc'
        /\ (last.op = "clear" /\ last.res = "Err"
               /\ last'.op = "allocate" /\ last'.res = "ok") =>
              last'.off = block_size * nalloc ]_vars

\* an allocate right after a failed clear, at the offset after the held blocks
C3_Witness ==
    /\ last.op = "allocate" /\ last.res = "ok" /\ last.retry
    /\ last.off = 2 * block_size /\ Len(blocks) = 3

\* C4: allocate with allocated_offset + block_size() > capacity aborts, and
\* has changed nothing when it does: cursor, staging bytes, token holders,
\* handles.
C4_OverflowAborts ==
    [][(pc = "ready" /\ last'.op = "allocate"
            /\ allocated + block_size > DYNAMIC_UNIFORM_BUFFER_SIZE) =>
          /\ pc' = "panicked" /\ last'.res = "panic"
          /\ allocated' = allocated /\ update_buf' = update_buf
          /\ heap' = heap /\ rc' = rc /\ blocks' = blocks]_vars

\* an aborted allocate with a block still held and room left in the buffer
C4_Witness ==
    /\ pc = "panicked" /\ last.op = "allocate"
    /\ allocated + block_size > DYNAMIC_UNIFORM_BUFFER_SIZE
    /\ allocated < DYNAMIC_UNIFORM_BUFFER_SIZE
    /\ Len(blocks) >= 1 /\ update_buf # {}

\* C5: after a flush the GPU buffer holds, in the range of every held
\* handle, the raw bytes of the value last allocated or written through that
\* handle: of the one just written and of every other one.
C5_FlushShowsEveryBlock ==
    last.op = "flush" =>
        \A i \in Held : HoldsValue(inner, offset(blocks[i]), block_size, blocks[i].val)

\* a flush after a write through one of two handles that hold different values
C5_Witness ==
    /\ last.op = "flush" /\ last.val # 0
    /\ \E i, j \in Held : blocks[i].val # blocks[j].val /\ offset(blocks[i]) = last.off

\* C6: last write wins: after write(h, v1); write(h, v2); flush every byte
\* of h's range in the GPU buffer is v2's, none is left of v1 (or of the
\* value given to allocate).
C6_LastWriteWins ==
    (last.op = "flush" /\ last.val # 0) =>
        \A k \in 0..(block_size - 1) :
            /\ BufByte(inner, last.off + k) = ObjByte(last.val, k)
            /\ ObjByte(last.prev, k) # ObjByte(last.val, k) =>
                   BufByte(inner, last.off + k) # ObjByte(last.prev, k)

\* a flush after a write that replaced a different value
C6_Witness ==
    last.op = "flush" /\ last.val # 0 /\ last.prev # 0 /\ last.prev # last.val

\* C7: once the arena is constructed, block_size() is at least 256, at least
\* size_of(element) and a multiple of 256.
C7_BlockSize ==
    Constructed =>
        /\ block_size >= DYNAMIC_UNIFORM_BUFFER_ALIGNMENT
        /\ block_size >= size_of
        /\ block_size % DYNAMIC_UNIFORM_BUFFER_ALIGNMENT = 0

\* an arena whose element is larger than the alignment unit
C7_Witness ==
    pc = "ready" /\ size_of > DYNAMIC_UNIFORM_BUFFER_ALIGNMENT /\ block_size = size_of

\* C8 as stated: allocated_offset + block_size <= capacity in every state
\* (of an arena whose blocks fit the buffer at all).
C8_Original ==
    (Constructed /\ block_size <= DYNAMIC_UNIFORM_BUFFER_SIZE) =>
        allocated + block_size <= DYNAMIC_UNIFORM_BUFFER_SIZE

\* C8, amended: allocated_offset <= capacity in every state, and every block
\* handed out ends within the capacity.
C8_CursorWithinCapacity ==
    Constructed =>
        /\ allocated <= DYNAMIC_UNIFORM_BUFFER_SIZE
        /\ (last.op = "allocate" /\ last.res = "ok") =>
               last.off + block_size <= DYNAMIC_UNIFORM_BUFFER_SIZE

\* the arena filled to its last byte
C8_Witness ==
    /\ pc = "ready" /\ last.op = "allocate" /\ last.res = "ok"
    /\ allocated = DYNAMIC_UNIFORM_BUFFER_SIZE

\* C9 as stated: with an element whose raw size is smaller than block_size()
\* the arena is created and allocate works.
C9_Original ==
    size_of < block_size => pc # "panicked"

\* C9, amended: with 16 bytes of fields and 256-byte alignment size_of is
\* 256 = block_size(), the allocates return 0, 256, 512 and stage the raw
\* bytes of their values; with size_of < block_size() no allocate succeeds.
C9_SmallElement ==
    /\ (T = [fields |-> 16, align |-> 256] /\ last.op = "allocate" /\ last.res = "ok") =>
           /\ size_of = 256 /\ block_size = 256
           /\ last.off = 256 * (nalloc - 1)
           /\ \A i \in Held : HoldsValue(update_buf, offset(blocks[i]), size_of, blocks[i].val)
    /\ size_of < block_size =>
           nalloc = 0 /\ blocks = << >> /\ update_buf = {} /\ last.op # "write_block"

\* three allocates of the align(256) type, neighbours with different values
C9_Witness ==
    /\ T = [fields |-> 16, align |-> 256]
    /\ last.op = "allocate" /\ last.res = "ok" /\ last.off = 512
    /\ Len(blocks) = 3 /\ Held = {1, 2, 3}
    /\ offset(blocks[1]) = 0 /\ offset(blocks[2]) = 256 /\ offset(blocks[3]) = 512
    /\ blocks[1].val # blocks[2].val /\ blocks[2].val # blocks[3].val

\* C10: record_draw makes exactly five calls, in this order: write the
\* uniforms to the deferred uniform buffer, set the deferred pipeline, set
\* the quad vertex buffer at slot 0, set the bind group at index 0 with no
\* dynamic offsets, draw vertices 0..6 of instance 0..1.
C10_RecordDrawSequence ==
    last.op = "record_draw" =>
        /\ Len(calls) = last.off + 5
        /\ calls[last.off + 1] =
               Call("write_buffer", "uniform_buffer", 0, DeferredUniforms_bytes(last.val))
        /\ calls[last.off + 2] = Call("set_pipeline", "pass", 0, pipeline)
        /\ calls[last.off + 3] = Call("set_vertex_buffer", "pass", 0, "quad_vertex_buffer")
        /\ calls[last.off + 4] =
               Call("set_bind_group", "pass", 0, [bind_group |-> bind_group, offsets |-> << >>])
        /\ calls[last.off + 5] =
               Call("draw", "pass", 0, [vertices |-> <<0, 6>>, instances |-> <<0, 1>>])
        /\ uniform_buffer.bytes = DeferredUniforms_bytes(last.val)

\* a second record_draw, after a rebuild, with other uniforms than the buffer's first
C10_Witness ==
    /\ last.op = "record_draw" /\ last.off = 5 /\ pipeline.id = 1
    /\ calls[1].arg # calls[6].arg /\ uniform_buffer.bytes[65] = MAX_LIGHTS

\* the 32-bit word that the four bytes from offset at on stand for
Word(bytes, at) ==
    bytes[at + 1] + 256 * bytes[at + 2] + 65536 * bytes[at + 3] + 16777216 * bytes[at + 4]

\* C11: after update_uniform_buffers(u), alone or in record_draw, the whole
\* uniform buffer is the byte layout of u: the inverse projection at 0,
\* light_count at 64, the padding words, every one of the MAX_LIGHTS lights
\* from 80 on, the bytes of u's padding up to the size; nothing of what the
\* buffer had before is left.
C11_UpdateOverwritesWholeBuffer ==
    last.op \in {"update_uniform_buffers", "record_draw"} =>
        LET u == last.val
            b == uniform_buffer.bytes
        IN  /\ Len(b) = DeferredUniforms_size
            /\ \A r \in 1..4 : \A c \in 1..4 :
                  Word(b, 16 * (r - 1) + 4 * (c - 1)) = u.inv_projection[r][c]
            /\ Word(b, 64) = u.light_count
            /\ \A k \in 1..3 : Word(b, 64 + 4 * k) = u._pad[k]
            /\ \A k \in 1..MAX_LIGHTS :
                  /\ \A x \in 1..3 : Word(b, 80 + 16 * (k - 1) + 4 * (x - 1)) = u.lights[k].origin[x]
                  /\ Word(b, 80 + 16 * (k - 1) + 12) = u.lights[k].radius
            /\ \A i \in (80 + 16 * MAX_LIGHTS + 1)..Len(b) : b[i] = u.tail

\* uniforms without lights written over a buffer that had every light in use
\* and other padding bytes
C11_Witness ==
    /\ last.op = "update_uniform_buffers"
    /\ Word(last.prev, 64) = MAX_LIGHTS /\ last.val.light_count = 0
    /\ Word(last.prev, 80 + 16 * (MAX_LIGHTS - 1)) # 0
    /\ Word(uniform_buffer.bytes, 80 + 16 * (MAX_LIGHTS - 1)) = 0
    /\ last.prev[Len(last.prev)] # last.val.tail
    /\ Word(last.prev, 0) # Word(uniform_buffer.bytes, 0)

\* C12: a rebuild, for any sample count, replaces the pipeline only: the
\* bind group layouts and the uniform buffer, object and bytes, are as
\* before, so the bind group made earlier still has the layout and the
\* buffer of the pipeline.
C12_RebuildReplacesPipelineOnly ==
    [][ last'.op = "rebuild" =>
            /\ bind_group_layouts' = bind_group_layouts
            /\ uniform_buffer' = uniform_buffer
            /\ pipeline'.layouts = bind_group_layouts'
            /\ bind_group'.layout = bind_group_layouts'[1]
            /\ bind_group'.uniform = uniform_buffer'.id ]_vars

\* a second rebuild, to another sample count, of a pipeline whose buffer was written
C12_Witness ==
    /\ last.op = "rebuild" /\ pipeline.id = 2 /\ pipeline.sample_count = 4
    /\ Word(uniform_buffer.bytes, 64) = 1
    /\ bind_group.layout = bind_group_layouts[1]

\* C13 as stated: allocated_offset decreases only in a successful clear, which
\* sets it to 0; write, flush, a failed clear, an aborted allocate and a drop
\* leave it unchanged; a successful allocate adds block_size() to it.
C13_Original ==
    [][ /\ allocated' < allocated =>
               (last'.op = "clear" /\ last'.res = "Ok" /\ allocated' = 0)
        /\ (\/ last'.op \in {"write_block", "flush", "drop"}
            \/ last'.op = "clear" /\ last'.res = "Err"
            \/ last'.op = "allocate" /\ last'.res = "panic") =>
               allocated' = allocated
        /\ (last'.op = "allocate" /\ last'.res = "ok") =>
               allocated' = allocated + block_size ]_vars

\* C14: the GPU buffer changes in flush only, which gives it the staging
\* bytes; allocate, write_block, clear and drops leave it as the last flush
\* left it.  (Equal slice sets are equal byte for byte.)
C14_GpuChangesInFlushOnly ==
    [][ /\ last'.op # "flush" => inner' = inner
        /\ last'.op = "flush" => inner' = update_buf ]_vars

\* a write after a flush: the GPU buffer still has the byte flushed earlier
C14_Witness ==
    /\ last.op = "write_block" /\ last.res = "ok" /\ inner # {}
    /\ BufByte(inner, last.off) = ObjByte(last.prev, 0)
    /\ BufByte(update_buf, last.off) = ObjByte(last.val, 0)
    /\ last.prev # last.val

\* C15: the ranges [addr, addr + block_size()) of the handles held are
\* pairwise disjoint and lie within [0, allocated_offset), which lies within
\* the capacity.
C15_HeldRangesDisjoint ==
    /\ Constructed => allocated <= DYNAMIC_UNIFORM_BUFFER_SIZE
    /\ \A i \in 1..Len(blocks) :
          /\ blocks[i].addr >= 0
          /\ blocks[i].addr + block_size <= allocated
          /\ \A j \in 1..Len(blocks) :
                i # j => \/ blocks[i].addr + block_size <= blocks[j].addr
                         \/ blocks[j].addr + block_size <= blocks[i].addr

\* two handles held around a dropped one, after a third allocate
C15_Witness ==
    /\ Len(blocks) = 2 /\ nalloc = 3
    /\ blocks[1].addr = 0 /\ blocks[2].addr = 2 * block_size

C17_OffsetAligned ==
    /\ \A i \in 1..Len(blocks) :
          /\ offset(blocks[i]) % DYNAMIC_UNIFORM_BUFFER_ALIGNMENT = 0
          /\ offset(blocks[i]) < DYNAMIC_UNIFORM_BUFFER_SIZE
          /\ offset(blocks[i]) = blocks[i].addr
    /\ (last.op = "allocate" /\ last.res = "ok") =>
          /\ last.off % DYNAMIC_UNIFORM_BUFFER_ALIGNMENT = 0
          /\ last.off < DYNAMIC_UNIFORM_BUFFER_SIZE

\* a handle of the last block that fits the buffer
C17_Witness ==
    \E i \in 1..Len(blocks) :
        offset(blocks[i]) > 0 /\ offset(blocks[i]) + block_size = DYNAMIC_UNIFORM_BUFFER_SIZE

\* C18: clear, Ok or Err, leaves the staging bytes as they are; a flush after
\* a successful clear transfers them again; staging bytes change in allocate
\* and write_block only.
C18_ClearKeepsStaging ==
    [][ /\ last'.op = "clear" => update_buf' = update_buf
        /\ (last.op = "clear" /\ last.res = "Ok" /\ last'.op = "flush") =>
               inner' = update_buf
        /\ update_buf' # update_buf => last'.op \in {"allocate", "write_block"} ]_vars

\* a flush of a cleared arena whose staging bytes still hold a released block
C18_Witness ==
    /\ last.op = "flush" /\ allocated = 0 /\ nalloc = 0 /\ blocks = << >>
    /\ \E v \in Vals : HoldsValue(inner, block_size, block_size, v)

\* C19 as stated: with two arenas of one element type, a write_block on this
\* arena with a handle of the other arena changes no staged byte outside
\* [0, allocated_offset) of this arena and no byte of a handle of this arena
\* that is still held.
C19_Original ==
    (last.op = "write_foreign" /\ last.res = "ok") =>
        /\ last.off + block_size <= allocated
        /\ \A i \in Held :
              HoldsValue(update_buf, offset(blocks[i]), block_size, blocks[i].val)
====
